---- MODULE Spec2Model ----
(***************************************************************************)
(* WHY IMPULSE? browser client: the extension popup (popup.js), the page   *)
(* overlay (content.js), the background service worker (background.js) and *)
(* the web app (App.js).  Each script runs in a JavaScript context of its  *)
(* own and shares no state with the others, so a behaviour of this module  *)
(* follows one context, chosen in Init and recorded in `context`.          *)
(*                                                                         *)
(* Strings that the code searches (URLs, paths) are sequences of           *)
(* one-character strings, so that String.prototype.includes and trim are   *)
(* computed; messages that are only displayed are TLA+ strings.            *)
(***************************************************************************)
EXTENDS Integers, Sequences, FiniteSets, TLC

\* ------------------------------------------------------------------ bounds
\* Analyses one behaviour may start (each is one network call).
MaxRequests == 2
\* Client-side navigations one behaviour of the overlay may perform.
MaxNav == 2
\* The settle delay of content.js (1000 ms), in clock ticks of the model.
SettleTicks == 1

\* ------------------------------------------------------- strings and URLs
\* String.prototype.includes on character sequences.
Includes(s, sub) ==
    \E i \in 1..(Len(s) - Len(sub) + 1) : SubSeq(s, i, i + Len(sub) - 1) = sub

RECURSIVE trimStart(_)
trimStart(s) ==
    IF s # <<>> /\ Head(s) = " " THEN trimStart(Tail(s)) ELSE s

RECURSIVE trimEnd(_)
trimEnd(s) ==
    IF s # <<>> /\ s[Len(s)] = " " THEN trimEnd(SubSeq(s, 1, Len(s) - 1)) ELSE s

\* String.prototype.trim.
trim(s) == trimEnd(trimStart(s))

\* The value of a missing property (tab.url of a tab the extension may not read).
Undefined == <<"undefined">>

UrlAmazonCom == <<"a", "m", "a", "z", "o", "n", ".", "c", "o", "m", "/", "d", "p", "/", "1">>
UrlPaddedDe  == <<" ", "a", "m", "a", "z", "o", "n", ".", "d", "e", "/", "d", "p", "/", "2", " ">>
UrlShortACo  == <<"a", ".", "c", "o", "/", "x">>
UrlAmazonIn  == <<"a", "m", "a", "z", "o", "n", ".", "i", "n", "/", "d", "p", "/", "3">>
UrlEbay      == <<"e", "b", "a", "y", ".", "c", "o", "m", "/", "i">>
UrlBlank     == <<" ", " ">>
UrlEmpty     == <<>>

\* The URLs a user submits or a tab shows.
Urls == {UrlAmazonCom, UrlPaddedDe, UrlShortACo, UrlAmazonIn, UrlEbay, UrlBlank, UrlEmpty}

\* The allow-list of popup.js and background.js.
amazonDomains ==
    { <<"a", "m", "a", "z", "o", "n", ".", "c", "o", "m">>,
      <<"a", "m", "a", "z", "o", "n", ".", "c", "o", ".", "u", "k">>,
      <<"a", "m", "a", "z", "o", "n", ".", "c", "a">>,
      <<"a", "m", "a", "z", "o", "n", ".", "d", "e">>,
      <<"a", "m", "a", "z", "o", "n", ".", "f", "r">>,
      <<"a", "m", "a", "z", "o", "n", ".", "i", "t">>,
      <<"a", "m", "a", "z", "o", "n", ".", "e", "s">>,
      <<"a", ".", "c", "o">>,
      <<"a", "m", "z", "n", ".", "t", "o">> }

\* isAmazonURL whose test is includes('amazon.') (as App.js line 20 has it)
\* instead of the allow-list.
popup_isAmazonURL_amazonDot(u) == Includes(u, <<"a", "m", "a", "z", "o", "n", ".">>)

\* popup.js isAmazonURL: amazonDomains.some(domain => url.includes(domain)).
popup_isAmazonURL(u) == \E domain \in amazonDomains : Includes(u, domain)

\* background.js isAmazonURL, a second copy of the same function.
background_isAmazonURL(u) == \E domain \in amazonDomains : Includes(u, domain)

\* App.js line 20: url.includes('amazon.').
app_includesAmazon(u) == Includes(u, <<"a", "m", "a", "z", "o", "n", ".">>)

\* ------------------------------------------------- the analysis endpoint
\* Shapes of a 2xx JSON body: every field present; the optional fields
\* (deal_analysis, inflation_analysis, price_history) absent; the required
\* field verdict absent (not an AnalysisResult).
Shapes == {"full", "noOptional", "noVerdict"}

MsgRateLimited == "rate limited"
MsgFetch       == "Failed to fetch"
MsgSyntax      == "Unexpected token < in JSON at position 0"
MsgTypeError   == "Cannot read properties of undefined (reading 'toLowerCase')"

\* What the endpoint can do with one request:
\*   ok          2xx, JSON body of the given shape
\*   okBadJson   2xx, body that is not JSON
\*   http        non-2xx, JSON body whose detail is `text` ("" = no detail)
\*   httpBadJson non-2xx, body that is not JSON
\*   fault       no response: the fetch rejects with message `text`
Outcomes ==
    [kind : {"ok"}, shape : Shapes, text : {""}]
    \cup [kind : {"okBadJson", "httpBadJson"}, shape : {"none"}, text : {""}]
    \cup [kind : {"http"}, shape : {"none"}, text : {MsgRateLimited, ""}]
    \cup [kind : {"fault"}, shape : {"none"}, text : {MsgFetch}]

\* A parsed 2xx body, tagged with the invocation it answers.
Data(r, o) == [for |-> r.id, url |-> r.url, shape |-> o.shape]
NoData     == [for |-> 0, url |-> <<>>, shape |-> "none"]

\* The surface shows the outcome `o` of invocation `r`; or of none.
Rendered(r, o) == [id |-> r.id, outcome |-> o]
NotRendered    == [id |-> 0, outcome |-> [kind |-> "none", shape |-> "none", text |-> ""]]

VARIABLES
    context,        \* "popup", "app", "content" or "background"
    pending,        \* the suspended invocations: fetches awaiting their response
    nextId,         \* the number of network calls issued so far, plus one
    rendered,       \* history: the invocation whose outcome the surface shows, and
                    \* what the endpoint did with its fetch (id 0: none is shown)
    \* popup.js
    popupDom,       \* the sections and buttons of popup.html
    currentTabUrl,
    isAmazonPage,
    listening,      \* setupEventListeners has run
    \* App.js (React state of EnhancedImpulseSaver)
    url,
    loading,
    analysis,
    error,
    mounted,        \* the component tree is mounted (no render has thrown)
    \* content.js
    document,       \* the nodes content.js created, and those attached to the body
    location,       \* the page shown: its href, pathname and #productTitle
    lastUrl,
    timers,         \* the ticks left of each pending setTimeout(showAnalyzeButton)
    navs,           \* navigations performed
    \* background.js
    channel,        \* per message: whether the channel is open, and the responses sent
    tabs,           \* per tab: its action indicator (badge text, badge colour,
                    \* title) and, as history, the URL of its last completed navigation
    welcomeOpened,  \* chrome.tabs.create has opened the welcome page
    \* the presentation code of the three surfaces
    \* the Domain Classifier (isAmazonURL of popup.js and background.js,
    \* isProductPage of content.js) applied to a URL or to the page `location`
    candidateUrl,   \* the URL classified
    classified,     \* which function classified last, and what it returned
    payload,        \* the verdict and impulse_score of the AnalysisResult presented
    view            \* what the surface derived from them (surface "none": nothing yet)

netVars     == <<pending, nextId, rendered>>
popupVars   == <<popupDom, currentTabUrl, isAmazonPage, listening>>
appVars     == <<url, loading, analysis, error, mounted>>
contentVars == <<document, location, lastUrl, timers, navs>>
bgVars      == <<channel, tabs, welcomeOpened>>
mapperVars  == <<payload, view>>
classifierVars == <<candidateUrl, classified>>
vars == <<context, pending, nextId, rendered,
          popupDom, currentTabUrl, isAmazonPage, listening,
          url, loading, analysis, error, mounted,
          document, location, lastUrl, timers, navs,
          channel, tabs, welcomeOpened,
          candidateUrl, classified, payload, view>>

\* The suspended invocation of an async function at its await of fetch; `ref`
\* is what its closure holds besides the URL: the button node in content.js,
\* the message (its sendResponse) in background.js, 0 elsewhere.
Request(id, u, ref) == [id |-> id, url |-> u, ref |-> ref]

\* ================================================================ popup.js

\* popup.html lines 256-280 as loaded.
PopupHtml ==
    [ analyzeCurrentBtn |-> [disabled |-> TRUE],
      analyzeManualBtn  |-> [disabled |-> FALSE],
      loadingSection    |-> [display |-> "none"],
      resultsSection    |-> [display |-> "none", innerHTML |-> NoData],
      errorSection      |-> [display |-> "none", textContent |-> ""] ]

popup_showLoading(d) ==
    [d EXCEPT !.loadingSection.display = "block",
              !.resultsSection.display = "none",
              !.errorSection.display = "none"]

popup_hideLoading(d) == [d EXCEPT !.loadingSection.display = "none"]

popup_hideError(d) == [d EXCEPT !.errorSection.display = "none"]

popup_hideResults(d) == [d EXCEPT !.resultsSection.display = "none"]

\* showError without its call of hideResults: results shown earlier stay.
popup_showError_keepsResults(d, message) ==
    popup_hideLoading(
        [d EXCEPT !.errorSection = [display |-> "block", textContent |-> message]])

popup_showError(d, message) ==
    popup_hideResults(popup_hideLoading(
        [d EXCEPT !.errorSection = [display |-> "block", textContent |-> message]]))

\* showResults: hideLoading, hideError, then the template.  data.verdict
\* .toLowerCase() throws a TypeError when verdict is absent; deal_analysis
\* and alternatives are guarded.  Returns the DOM and the message thrown ("":
\* nothing thrown).
popup_showResults(d, data) ==
    LET d1 == popup_hideError(popup_hideLoading(d)) IN
    IF data.shape = "noVerdict"
    THEN [dom |-> d1, thrown |-> MsgTypeError]
    ELSE [dom |-> [d1 EXCEPT !.resultsSection = [display |-> "block", innerHTML |-> data]],
          thrown |-> ""]

\* The message of the Error that reaches the catch block of analyzeProduct
\* ("": none, the results were shown).
popup_thrown(d, r, o) ==
    CASE o.kind = "fault"       -> o.text
      [] o.kind = "httpBadJson" -> MsgSyntax
      [] o.kind = "http"        -> IF o.text # "" THEN o.text ELSE "Analysis failed"
      [] o.kind = "okBadJson"   -> MsgSyntax
      [] o.kind = "ok"          -> popup_showResults(d, Data(r, o)).thrown

\* analyzeProduct from the return of fetch to its end: try, catch, finally.
popup_afterFetch(d, r, o) ==
    LET msg == popup_thrown(d, r, o)
        d1  == IF o.kind = "ok" THEN popup_showResults(d, Data(r, o)).dom ELSE d
        d2  == IF msg # "" THEN popup_showError(d1, "Analysis failed: " \o msg) ELSE d1
    IN popup_hideLoading(d2)

\* What chrome.tabs.query can give checkCurrentPage: a tab with a URL, a tab
\* without one, or a rejection.
TabQueries ==
    [ok : {TRUE}, url : (Urls \ {UrlBlank, UrlPaddedDe}) \cup {Undefined}]
    \cup [ok : {FALSE}, url : {<<>>}]

\* checkCurrentPage whose else branch enables the button as well
\* (analyzeCurrentBtn.disabled = false on a page that is not eligible).
CheckCurrentPage_enablesAlways ==
    /\ context = "popup" /\ ~listening
    /\ \E tab \in TabQueries :
        /\ currentTabUrl' = IF tab.ok THEN tab.url ELSE currentTabUrl
        /\ IF tab.ok /\ tab.url # Undefined
           THEN /\ isAmazonPage' = popup_isAmazonURL(tab.url)
                /\ popupDom' = [popupDom EXCEPT !.analyzeCurrentBtn.disabled = FALSE]
           ELSE UNCHANGED <<isAmazonPage, popupDom>>
    /\ listening' = TRUE
    /\ UNCHANGED <<context, mapperVars, classifierVars, netVars, appVars, contentVars, bgVars>>

\* DOMContentLoaded: checkCurrentPage, then setupEventListeners.
CheckCurrentPage ==
    /\ context = "popup" /\ ~listening
    /\ \E tab \in TabQueries :
        /\ currentTabUrl' = IF tab.ok THEN tab.url ELSE currentTabUrl
        /\ IF tab.ok /\ tab.url # Undefined
           THEN /\ isAmazonPage' = popup_isAmazonURL(tab.url)
                /\ popupDom' = [popupDom EXCEPT !.analyzeCurrentBtn.disabled =
                                                    ~popup_isAmazonURL(tab.url)]
           ELSE UNCHANGED <<isAmazonPage, popupDom>>
    /\ listening' = TRUE
    /\ UNCHANGED <<context, mapperVars, classifierVars, netVars, appVars, contentVars, bgVars>>

\* analyzeProduct(u) up to its await of fetch.
popup_analyzeProduct(u) ==
    IF ~popup_isAmazonURL(u)
    THEN /\ popupDom' = popup_showError(popupDom, "Please provide a valid Amazon URL")
         /\ rendered' = NotRendered
         /\ UNCHANGED <<pending, nextId>>
    ELSE /\ nextId <= MaxRequests
         /\ popupDom' = popup_hideResults(popup_hideError(popup_showLoading(popupDom)))
         /\ pending' = pending \cup {Request(nextId, u, 0)}
         /\ nextId' = nextId + 1
         /\ rendered' = NotRendered

\* The click listener of analyzeCurrentBtn.
ClickAnalyzeCurrent ==
    /\ context = "popup" /\ listening
    /\ ~popupDom.analyzeCurrentBtn.disabled
    /\ IF isAmazonPage /\ currentTabUrl # <<>> /\ currentTabUrl # Undefined
       THEN popup_analyzeProduct(currentTabUrl)
       ELSE UNCHANGED <<popupDom, netVars>>
    /\ UNCHANGED <<context, mapperVars, classifierVars, currentTabUrl, isAmazonPage, listening,
                   appVars, contentVars, bgVars>>

\* The click listener of analyzeManualBtn, urlInput holding `value`.
popup_manualClick(value) ==
    IF trim(value) # <<>>
    THEN popup_analyzeProduct(trim(value))
    ELSE /\ popupDom' = popup_showError(popupDom, "Please enter an Amazon URL")
         /\ rendered' = NotRendered
         /\ UNCHANGED <<pending, nextId>>

ClickAnalyzeManual ==
    /\ context = "popup" /\ listening
    /\ ~popupDom.analyzeManualBtn.disabled
    /\ \E value \in Urls : popup_manualClick(value)
    /\ UNCHANGED <<context, mapperVars, classifierVars, currentTabUrl, isAmazonPage, listening,
                   appVars, contentVars, bgVars>>

\* The keypress listener of urlInput: Enter calls analyzeManualBtn.click(),
\* which does nothing on a disabled button.
PressEnterInUrlInput ==
    /\ context = "popup" /\ listening
    /\ IF popupDom.analyzeManualBtn.disabled
       THEN UNCHANGED <<popupDom, netVars>>
       ELSE \E value \in Urls : popup_manualClick(value)
    /\ UNCHANGED <<context, mapperVars, classifierVars, currentTabUrl, isAmazonPage, listening,
                   appVars, contentVars, bgVars>>

\* analyzeProduct with a retry in its catch block: after a failure the
\* request is issued again.
PopupResponse_retries ==
    /\ context = "popup"
    /\ \E r \in pending, o \in Outcomes :
        /\ popupDom' = popup_afterFetch(popupDom, r, o)
        /\ rendered' = Rendered(r, o)
        /\ IF popup_thrown(popupDom, r, o) # "" /\ nextId <= MaxRequests
           THEN /\ pending' = (pending \ {r}) \cup {Request(nextId, r.url, 0)}
                /\ nextId' = nextId + 1
           ELSE /\ pending' = pending \ {r}
                /\ UNCHANGED nextId
    /\ UNCHANGED <<context, mapperVars, classifierVars, currentTabUrl, isAmazonPage, listening,
                   appVars, contentVars, bgVars>>

\* The fetch of one suspended analyzeProduct settles and the function runs
\* to its end.
PopupResponse ==
    /\ context = "popup"
    /\ \E r \in pending, o \in Outcomes :
        /\ popupDom' = popup_afterFetch(popupDom, r, o)
        /\ pending' = pending \ {r}
        /\ rendered' = Rendered(r, o)
    /\ UNCHANGED <<context, mapperVars, classifierVars, nextId, currentTabUrl, isAmazonPage, listening,
                   appVars, contentVars, bgVars>>

\* ================================================================== App.js

\* The fallback message of the catch block (line 36).
AppGenericError == "Failed to analyze product. Please try again."

\* What axios gives as response.data for a 2xx response: the parsed body, or
\* the body text when it is not JSON (axios does not reject on it).
app_responseData(r, o) ==
    IF o.kind = "okBadJson"
    THEN [for |-> r.id, url |-> r.url, shape |-> "text"]
    ELSE Data(r, o)

\* Whether the JSX under {analysis && (...)} renders without throwing:
\* analysis.product_data.image_url, getVerdictStyle(analysis.verdict) and
\* DealAnalysisCard (dealAnalysis.quality, inflationAnalysis.inflation_detected)
\* are read unguarded.
app_renders(a) == a = NoData \/ a.shape = "full"

\* analyzeProduct up to its await of axios.post.
app_analyzeProduct ==
    IF trim(url) = <<>>
    THEN /\ error' = "Please enter an Amazon URL"
         /\ rendered' = NotRendered
         /\ UNCHANGED <<loading, analysis, pending, nextId>>
    ELSE IF ~app_includesAmazon(url)
    THEN /\ error' = "Please enter a valid Amazon URL"
         /\ rendered' = NotRendered
         /\ UNCHANGED <<loading, analysis, pending, nextId>>
    ELSE /\ nextId <= MaxRequests
         /\ loading' = TRUE
         /\ error' = ""
         /\ analysis' = NoData
         /\ pending' = pending \cup {Request(nextId, url, 0)}
         /\ nextId' = nextId + 1
         /\ rendered' = NotRendered

\* onChange of the URL input.
SetUrl ==
    /\ context = "app" /\ mounted
    /\ \E value \in Urls \ {url} : url' = value
    /\ UNCHANGED <<context, mapperVars, classifierVars, netVars, loading, analysis, error, mounted,
                   popupVars, contentVars, bgVars>>

\* onClick of the Analyze button, which is rendered disabled={loading}.
ClickAnalyze ==
    /\ context = "app" /\ mounted
    /\ ~loading
    /\ app_analyzeProduct
    /\ UNCHANGED <<context, mapperVars, classifierVars, url, mounted, popupVars, contentVars, bgVars>>

\* onKeyPress of the URL input: e.key === 'Enter' && analyzeProduct().
PressEnter ==
    /\ context = "app" /\ mounted
    /\ app_analyzeProduct
    /\ UNCHANGED <<context, mapperVars, classifierVars, url, mounted, popupVars, contentVars, bgVars>>

\* The error set by the catch block for a rejected axios.post.
app_catch(o) ==
    IF o.kind = "http" /\ o.text # "" THEN o.text ELSE AppGenericError

\* axios.post settles and analyzeProduct runs to its end; React then renders
\* the new state, and a render that throws unmounts the tree (App.js has no
\* error boundary).  State updates of an unmounted component are dropped.
AppResponse ==
    /\ context = "app"
    /\ \E r \in pending, o \in Outcomes :
        /\ pending' = pending \ {r}
        /\ IF mounted
           THEN /\ analysis' = IF o.kind \in {"ok", "okBadJson"}
                               THEN app_responseData(r, o) ELSE analysis
                /\ error' = IF o.kind \in {"ok", "okBadJson"} THEN error ELSE app_catch(o)
                /\ loading' = FALSE
                /\ mounted' = app_renders(analysis')
                /\ rendered' = Rendered(r, o)
           ELSE UNCHANGED <<analysis, error, loading, mounted, rendered>>
    /\ UNCHANGED <<context, mapperVars, classifierVars, nextId, url, popupVars, contentVars, bgVars>>

\* onClick of "Analyze Another Product", rendered only under {analysis && ...}.
AnalyzeAnother ==
    /\ context = "app" /\ mounted
    /\ analysis # NoData
    /\ url' = <<>>
    /\ analysis' = NoData
    /\ error' = ""
    /\ rendered' = NotRendered
    /\ UNCHANGED <<context, mapperVars, classifierVars, pending, nextId, loading, mounted,
                   popupVars, contentVars, bgVars>>

\* ============================================================== content.js

Host == <<"a", "m", "a", "z", "o", "n", ".", "c", "o", "m">>

\* A page of the site: window.location.pathname, and whether the document
\* holds an element #productTitle.
Page(pathname, productTitle) ==
    [href |-> Host \o pathname, pathname |-> pathname, productTitle |-> productTitle]

PageDp     == Page(<<"/", "d", "p", "/", "B", "0", "1">>, TRUE)
PageGp     == Page(<<"/", "g", "p", "/", "p", "r", "o", "d", "u", "c", "t", "/", "B", "0", "2">>, FALSE)
PageSearch == Page(<<"/", "s">>, FALSE)
PageDeal   == Page(<<"/", "d", "e", "a", "l">>, TRUE)
Pages == {PageDp, PageGp, PageSearch, PageDeal}

\* The pages a client-side navigation leads to.
Destinations == {PageDp, PageSearch, PageDeal}

\* isProductPage without the #productTitle signal.
isProductPage_pathOnly(page) ==
    \/ Includes(page.pathname, <<"/", "d", "p", "/">>)
    \/ Includes(page.pathname, <<"/", "g", "p", "/", "p", "r", "o", "d", "u", "c", "t", "/">>)

isProductPage(page) ==
    \/ Includes(page.pathname, <<"/", "d", "p", "/">>)
    \/ Includes(page.pathname, <<"/", "g", "p", "/", "p", "r", "o", "d", "u", "c", "t", "/">>)
    \/ page.productTitle

getCurrentProductURL(page) == page.href

ButtonId == "whyimpulse-analyze-btn"
PanelId  == "whyimpulse-results-panel"

ContentGenericError == "Analysis failed. Please try again."

\* createAnalyzeButton: a div with the idle label and a click listener; no
\* inline pointer-events.
createAnalyzeButton ==
    [id |-> ButtonId, innerHTML |-> "analyze", pointerEvents |-> "",
     display |-> "", data |-> NoData, text |-> ""]

\* createResultsPanel: an empty div, display none.
createResultsPanel ==
    [id |-> PanelId, innerHTML |-> "", pointerEvents |-> "",
     display |-> "none", data |-> NoData, text |-> ""]

\* The document as content.js sees it: `nodes` are the nodes it created
\* (closures keep detached ones alive), `body` the indices of the attached
\* ones in document order.
EmptyDocument == [nodes |-> <<>>, body |-> <<>>]

\* document.getElementById: the first attached node with the id (0: null).
getElementById(d, id) ==
    LET hits == {i \in 1..Len(d.body) : d.nodes[d.body[i]].id = id} IN
    IF hits = {} THEN 0
    ELSE d.body[CHOOSE i \in hits : \A j \in hits : i <= j]

\* node.remove().
remove(d, n) ==
    [d EXCEPT !.body = SelectSeq(d.body, LAMBDA m : m # n)]

\* document.body.appendChild of a new node.
appendChild(d, node) ==
    [nodes |-> Append(d.nodes, node), body |-> Append(d.body, Len(d.nodes) + 1)]

\* showAnalyzeButton without lines 53-56: the existing button is left in place.
showAnalyzeButton_keepsExisting(d, page) ==
    IF ~isProductPage(page) THEN d
    ELSE LET d2 == appendChild(d, createAnalyzeButton)
             existingPanel == getElementById(d2, PanelId)
         IN IF existingPanel = 0 THEN appendChild(d2, createResultsPanel) ELSE d2

showAnalyzeButton(d, page) ==
    IF ~isProductPage(page) THEN d
    ELSE LET existingButton == getElementById(d, ButtonId)
             d1 == IF existingButton # 0 THEN remove(d, existingButton) ELSE d
             d2 == appendChild(d1, createAnalyzeButton)
             existingPanel == getElementById(d2, PanelId)
         IN IF existingPanel = 0 THEN appendChild(d2, createResultsPanel) ELSE d2

\* showResults: returns the document and the message thrown ("": none).
content_showResults(d, data) ==
    LET panel == getElementById(d, PanelId) IN
    IF panel = 0 THEN [dom |-> d, thrown |-> ""]
    ELSE IF data.shape = "noVerdict" THEN [dom |-> d, thrown |-> MsgTypeError]
    ELSE [dom |-> [d EXCEPT !.nodes[panel].innerHTML = "results",
                            !.nodes[panel].data = data,
                            !.nodes[panel].text = "",
                            !.nodes[panel].display = "block"],
          thrown |-> ""]

content_showError(d, message) ==
    LET panel == getElementById(d, PanelId) IN
    IF panel = 0 THEN d
    ELSE [d EXCEPT !.nodes[panel].innerHTML = "error",
                   !.nodes[panel].data = NoData,
                   !.nodes[panel].text = message,
                   !.nodes[panel].display = "block"]

\* Whether an Error reaches the catch block of analyzeCurrentProduct.
content_throws(d, r, o) ==
    \/ o.kind \in {"fault", "http", "httpBadJson", "okBadJson"}
    \/ o.kind = "ok" /\ content_showResults(d, Data(r, o)).thrown # ""

\* analyzeCurrentProduct from the return of fetch to its end; the finally
\* block resets the button node the invocation looked up when it started.
content_afterFetch(d, r, o) ==
    LET d1 == IF o.kind = "ok" THEN content_showResults(d, Data(r, o)).dom ELSE d
        d2 == IF content_throws(d, r, o) THEN content_showError(d1, ContentGenericError) ELSE d1
    IN [d2 EXCEPT !.nodes[r.ref].innerHTML = "analyze",
                  !.nodes[r.ref].pointerEvents = "auto"]

\* A click on the analyze button in the page (pointer-events: none takes no
\* clicks) runs analyzeCurrentProduct up to its await of fetch.
ClickAnalyzeButton ==
    /\ context = "content"
    /\ \E n \in 1..Len(document.nodes) :
        /\ \E i \in 1..Len(document.body) : document.body[i] = n
        /\ document.nodes[n].id = ButtonId
        /\ document.nodes[n].pointerEvents # "none"
    /\ LET button == getElementById(document, ButtonId)
           panel  == getElementById(document, PanelId)
       IN IF button = 0 \/ panel = 0
          THEN UNCHANGED <<document, netVars>>
          ELSE /\ nextId <= MaxRequests
               /\ document' = [document EXCEPT !.nodes[button].innerHTML = "analyzing",
                                               !.nodes[button].pointerEvents = "none"]
               /\ pending' = pending \cup
                      {Request(nextId, getCurrentProductURL(location), button)}
               /\ nextId' = nextId + 1
               /\ UNCHANGED rendered
    /\ UNCHANGED <<context, mapperVars, classifierVars, location, lastUrl, timers, navs, popupVars, appVars, bgVars>>

ContentResponse ==
    /\ context = "content"
    /\ \E r \in pending, o \in Outcomes :
        /\ document' = content_afterFetch(document, r, o)
        /\ pending' = pending \ {r}
        /\ rendered' = IF getElementById(document, PanelId) # 0 THEN Rendered(r, o)
                       ELSE rendered
    /\ UNCHANGED <<context, mapperVars, classifierVars, nextId, location, lastUrl, timers, navs,
                   popupVars, appVars, bgVars>>

\* The close button of the panel: onclick sets the panel's display to none.
ClosePanel ==
    /\ context = "content"
    /\ LET panel == getElementById(document, PanelId) IN
        /\ panel # 0
        /\ document.nodes[panel].display = "block"
        /\ document' = [document EXCEPT !.nodes[panel].display = "none"]
    /\ UNCHANGED <<context, mapperVars, classifierVars, netVars, location, lastUrl, timers, navs,
                   popupVars, appVars, bgVars>>

\* The site navigates client-side (history API): the URL and the page
\* content change, the content script keeps running.
Navigate ==
    /\ context = "content"
    /\ navs < MaxNav
    /\ \E page \in Destinations \ {location} : location' = page
    /\ navs' = navs + 1
    /\ UNCHANGED <<context, mapperVars, classifierVars, netVars, document, lastUrl, timers, popupVars, appVars, bgVars>>

\* The MutationObserver callback of init.
MutationObserved ==
    /\ context = "content"
    /\ IF location.href # lastUrl
       THEN /\ lastUrl' = location.href
            /\ timers' = Append(timers, SettleTicks)
       ELSE UNCHANGED <<lastUrl, timers>>
    /\ UNCHANGED <<context, mapperVars, classifierVars, netVars, document, location, navs, popupVars, appVars, bgVars>>

\* Time passes: every pending timer gets one tick closer to being due.
Tick ==
    /\ context = "content"
    /\ \E i \in 1..Len(timers) : timers[i] > 0
    /\ timers' = [i \in 1..Len(timers) |-> IF timers[i] > 0 THEN timers[i] - 1 ELSE 0]
    /\ UNCHANGED <<context, mapperVars, classifierVars, netVars, document, location, lastUrl, navs,
                   popupVars, appVars, bgVars>>

\* A timer set with no delay (setTimeout(showAnalyzeButton)): its callback
\* runs as soon as the event loop is free.
TimerFires_noDelay ==
    /\ context = "content"
    /\ timers # <<>>
    /\ timers' = Tail(timers)
    /\ document' = showAnalyzeButton(document, location)
    /\ UNCHANGED <<context, mapperVars, classifierVars, netVars, location, lastUrl, navs, popupVars, appVars, bgVars>>

\* The oldest timer is due and the event loop runs its callback,
\* showAnalyzeButton.
TimerFires ==
    /\ context = "content"
    /\ timers # <<>> /\ Head(timers) = 0
    /\ timers' = Tail(timers)
    /\ document' = showAnalyzeButton(document, location)
    /\ UNCHANGED <<context, mapperVars, classifierVars, netVars, location, lastUrl, navs, popupVars, appVars, bgVars>>

\* =========================================================== background.js

\* The actions a message can carry.
MessageActions == {"analyzeProduct", "getStatus"}

\* The URLs a message carries (request.url is passed on as it comes).
MessageUrls == {UrlAmazonCom, UrlEbay}

\* What handleProductAnalysis passes to sendResponse.
background_response(r, o) ==
    CASE o.kind = "ok"        -> [success |-> TRUE, data |-> Data(r, o), error |-> ""]
      [] o.kind = "okBadJson" -> [success |-> FALSE, data |-> NoData, error |-> MsgSyntax]
      [] o.kind = "fault"     -> [success |-> FALSE, data |-> NoData, error |-> o.text]
      [] OTHER                -> [success |-> FALSE, data |-> NoData, error |-> "Analysis failed"]

\* The onMessage listener: for analyzeProduct it starts handleProductAnalysis
\* (which runs to its await of fetch) and returns true.
OnMessage ==
    /\ context = "background"
    /\ Len(channel) < MaxRequests
    /\ \E action \in MessageActions, u \in MessageUrls :
        IF action = "analyzeProduct"
        THEN /\ channel' = Append(channel, [action |-> action, keptOpen |-> TRUE,
                                            responses |-> <<>>])
             /\ pending' = pending \cup {Request(nextId, u, Len(channel) + 1)}
             /\ nextId' = nextId + 1
        ELSE /\ channel' = Append(channel, [action |-> action, keptOpen |-> FALSE,
                                            responses |-> <<>>])
             /\ UNCHANGED <<pending, nextId>>
    /\ UNCHANGED <<context, mapperVars, classifierVars, rendered, tabs, welcomeOpened,
                   popupVars, appVars, contentVars>>

\* handleProductAnalysis with a second sendResponse after the try/catch: the
\* sender is answered twice.
BackgroundResponse_respondsAgain ==
    /\ context = "background"
    /\ \E r \in pending, o \in Outcomes :
        /\ channel' = [channel EXCEPT ![r.ref].responses =
                          Append(Append(@, background_response(r, o)),
                                 background_response(r, o))]
        /\ pending' = pending \ {r}
    /\ UNCHANGED <<context, mapperVars, classifierVars, nextId, rendered, tabs, welcomeOpened,
                   popupVars, appVars, contentVars>>

\* The fetch of handleProductAnalysis settles and sendResponse is called.
BackgroundResponse ==
    /\ context = "background"
    /\ \E r \in pending, o \in Outcomes :
        /\ channel' = [channel EXCEPT ![r.ref].responses =
                                          Append(@, background_response(r, o))]
        /\ pending' = pending \ {r}
    /\ UNCHANGED <<context, mapperVars, classifierVars, nextId, rendered, tabs, welcomeOpened,
                   popupVars, appVars, contentVars>>

\* The tabs.onUpdated listener (Badge/State Sync).
TabIds == {1, 2}

\* What an onUpdated event carries: changeInfo.status, and tab.url, which is
\* missing for a page the extension may not read.
TabStatuses == {"loading", "complete"}
TabUrls == {UrlAmazonCom, UrlEbay, UrlEmpty, Undefined}

BadgeColor   == "#ff9800"
TitleAnalyze == "WHY IMPULSE? - Analyze this Amazon product"
TitleDefault == "WHY IMPULSE? - Smart Amazon Shopping"
\* default_title of the manifest: the title of a tab no event has set.
TitleManifest == "WHY IMPULSE? - Analyze Amazon Product"

\* The indicator of a tab before any event.
NewTab == [text |-> "", color |-> "", title |-> TitleManifest, completed |-> <<>>]

\* The listener whose else branch (lines 71-81) is missing: the indicator of
\* a page that is not eligible is left as it was.
onUpdated_neverClears(t, status, u) ==
    IF status = "complete" /\ u # Undefined /\ u # <<>>
    THEN IF background_isAmazonURL(u)
         THEN [text |-> "!", color |-> BadgeColor, title |-> TitleAnalyze, completed |-> u]
         ELSE [t EXCEPT !.completed = u]
    ELSE t

\* The listener without the test of changeInfo.status: it acts on every
\* event that carries a URL, also while the page is still loading.
onUpdated_anyStatus(t, status, u) ==
    IF u # Undefined /\ u # <<>>
    THEN IF background_isAmazonURL(u)
         THEN [text |-> "!", color |-> BadgeColor, title |-> TitleAnalyze, completed |-> u]
         ELSE [t EXCEPT !.text = "", !.title = TitleDefault, !.completed = u]
    ELSE t

\* The listener applied to the indicator `t` of the event's tab:
\* if (changeInfo.status === 'complete' && tab.url) { ... }.
onUpdated(t, status, u) ==
    IF status = "complete" /\ u # Undefined /\ u # <<>>
    THEN IF background_isAmazonURL(u)
         THEN [text |-> "!", color |-> BadgeColor, title |-> TitleAnalyze, completed |-> u]
         ELSE [t EXCEPT !.text = "", !.title = TitleDefault, !.completed = u]
    ELSE t

\* chrome.tabs.onUpdated fires for a tab.
TabUpdated ==
    /\ context = "background"
    /\ \E tabId \in TabIds, status \in TabStatuses, u \in TabUrls :
        tabs' = [tabs EXCEPT ![tabId] = onUpdated(@, status, u)]
    /\ UNCHANGED <<context, mapperVars, classifierVars, netVars, channel, welcomeOpened,
                   popupVars, appVars, contentVars>>

\* details.reason of an onInstalled event.
InstallReasons == {"install", "update"}

\* The runtime.onInstalled listener: on the first install it opens the
\* welcome page in a new tab (the browser installs an extension once).
OnInstalled ==
    /\ context = "background"
    /\ \E reason \in InstallReasons :
        IF reason = "install"
        THEN ~welcomeOpened /\ welcomeOpened' = TRUE
        ELSE UNCHANGED welcomeOpened
    /\ UNCHANGED <<context, mapperVars, classifierVars, netVars, channel, tabs,
                   popupVars, appVars, contentVars>>

\* The tab.url an action.onClicked event carries.
ClickedUrls == {UrlAmazonCom, UrlEbay}

\* The action.onClicked listener: console.log of the tab's URL and nothing
\* else, so no state of the extension changes.  (With the manifest's
\* default_popup the browser opens the popup on an icon click.)
OnClicked ==
    /\ context = "background"
    /\ \E u \in ClickedUrls : u \in ClickedUrls
    /\ UNCHANGED vars

\* ======================================================= domain classifier

UrlCoUk     == <<"a", "m", "a", "z", "o", "n", ".", "c", "o", ".", "u", "k", "/", "x">>
UrlAmznTo   == <<"a", "m", "z", "n", ".", "t", "o", "/", "z">>
\* An allow-listed domain in the query of another site's URL.
UrlInQuery  == <<"e", "b", "a", "y", ".", "c", "o", "m", "/", "?", "q", "=", "a", ".", "c", "o">>
UrlUpper    == <<"A", "M", "A", "Z", "O", "N", ".", "C", "O", "M">>

\* The URLs isAmazonURL is applied to.
CandidateUrls == Urls \cup {UrlCoUk, UrlAmznTo, UrlInQuery, UrlUpper}

\* '/gp/' without 'product/', '/dp' without the closing slash: no marker.
PageGpHelp == Page(<<"/", "g", "p", "/", "h", "e", "l", "p">>, FALSE)
PageDpBare == Page(<<"/", "d", "p">>, FALSE)

\* The pages isProductPage is applied to.
CandidatePages == Pages \cup {PageGpHelp, PageDpBare}

NotClassified == [by |-> "none", result |-> FALSE]

\* popup.js isAmazonURL(candidateUrl).
ClassifyUrlPopup ==
    /\ context = "classifier"
    /\ classified' = [by |-> "popup", result |-> popup_isAmazonURL(candidateUrl)]
    /\ UNCHANGED <<context, candidateUrl, mapperVars, netVars, popupVars, appVars,
                   contentVars, bgVars>>

\* background.js isAmazonURL(candidateUrl).
ClassifyUrlBackground ==
    /\ context = "classifier"
    /\ classified' = [by |-> "background", result |-> background_isAmazonURL(candidateUrl)]
    /\ UNCHANGED <<context, candidateUrl, mapperVars, netVars, popupVars, appVars,
                   contentVars, bgVars>>

\* content.js isProductPage() on the page shown.
ClassifyPage ==
    /\ context = "classifier"
    /\ classified' = [by |-> "content", result |-> isProductPage(location)]
    /\ UNCHANGED <<context, candidateUrl, mapperVars, netVars, popupVars, appVars,
                   contentVars, bgVars>>

\* ==================================================== result presentation
\* The derivations showResults (popup.js, content.js) and the JSX of App.js
\* make from verdict and impulse_score.  Emoji of the source's labels are
\* left out of the strings.

\* String.prototype.toLowerCase, on the letters the verdicts use.
toLowerChar(c) ==
    CASE c = "B" -> "b" [] c = "U" -> "u" [] c = "Y" -> "y"
      [] c = "W" -> "w" [] c = "A" -> "a" [] c = "I" -> "i" [] c = "T" -> "t"
      [] c = "S" -> "s" [] c = "K" -> "k" [] c = "P" -> "p"
      [] OTHER -> c

toLowerCase(s) == [i \in 1..Len(s) |-> toLowerChar(s[i])]

StrBuy  == <<"b", "u", "y">>
StrWait == <<"w", "a", "i", "t">>
StrSkip == <<"s", "k", "i", "p">>

\* Verdict texts the endpoint may send.
VerdictBUY      == <<"B", "U", "Y">>
VerdictBuyNow   == <<"B", "u", "y", " ", "n", "o", "w">>
VerdictWait     == <<"W", "A", "I", "T">>
VerdictSkip     == <<"S", "k", "i", "p">>
VerdictSkipBuy  == <<"s", "k", "i", "p", ",", "B", "U", "Y">>
VerdictWaitBuy  == <<"w", "a", "i", "t", " ", "b", "u", "y">>
VerdictSkipWait == <<"S", "K", "I", "P", "/", "w", "a", "i", "t">>
VerdictHold     == <<"H", "o", "l", "d">>
VerdictNone     == <<>>
Verdicts == {VerdictBUY, VerdictBuyNow, VerdictWait, VerdictSkip, VerdictSkipBuy,
             VerdictWaitBuy, VerdictSkipWait, VerdictHold, VerdictNone}

\* impulse_score values: the band edges, their neighbours, and values
\* outside 0..100.
Scores == {-5, 0, 39, 40, 59, 60, 79, 80, 100, 150}

\* One entry of impulse_factors as impulseFactors[factor.key] finds it: a
\* number, or nothing under the key.
Factor(value)  == [present |-> TRUE, value |-> value]
MissingFactor  == [present |-> FALSE, value |-> 0]
FactorValues == {MissingFactor} \cup {Factor(v) : v \in {-3, 0, 1, 15, 30, 45}}

\* price_history as the sequence of its prices; <<>> also stands for an
\* absent price_history (the chart is not rendered for either).
PriceHistories ==
    { <<>>, <<50>>, <<50, 50>>, <<100, 150, 100>>, <<10, 20, 40>>, <<30, 10>> }

\* alternatives: none, or one Alternative with its savings and
\* savings_percent.
Alternative(savings, savings_percent) ==
    [savings |-> savings, savings_percent |-> savings_percent]
AlternativeLists ==
    { <<>>, <<Alternative(5, 10)>>, <<Alternative(0, 0)>>, <<Alternative(-5, -10)>> }

Payloads ==
    [verdict : Verdicts, impulse_score : Scores, impulse_factor : FactorValues,
     price_history : PriceHistories, alternatives : AlternativeLists]
NoPayload ==
    [verdict |-> <<>>, impulse_score |-> 0, impulse_factor |-> MissingFactor,
     price_history |-> <<>>, alternatives |-> <<>>]

\* A JavaScript number n/d; 0/0 is NaN (the divisions of App.js have a
\* denominator of 0 only together with a numerator of 0).
Num(n, d) == [num |-> n, den |-> d]
isNaN(q)  == q.den = 0

\* The popup's bucketing with "wait" tested before "buy".
popup_verdictClass_waitFirst(verdict) ==
    IF Includes(toLowerCase(verdict), StrWait) THEN "wait"
    ELSE IF Includes(toLowerCase(verdict), StrBuy) THEN "buy"
    ELSE "skip"

\* popup.js showResults, lines 138-139.
popup_verdictClass(verdict) ==
    IF Includes(toLowerCase(verdict), StrBuy) THEN "buy"
    ELSE IF Includes(toLowerCase(verdict), StrWait) THEN "wait"
    ELSE "skip"

\* content.js showResults, lines 122-123.
content_verdictClass(verdict) ==
    IF Includes(toLowerCase(verdict), StrBuy) THEN "buy"
    ELSE IF Includes(toLowerCase(verdict), StrWait) THEN "wait"
    ELSE "skip"

\* App.js getVerdictStyle.
getVerdictStyle(verdict) ==
    LET lower == toLowerCase(verdict) IN
    IF Includes(lower, StrBuy) THEN "bg-green-500 text-white"
    ELSE IF Includes(lower, StrWait) THEN "bg-yellow-500 text-white"
    ELSE IF Includes(lower, StrSkip) THEN "bg-red-500 text-white"
    ELSE "bg-gray-500 text-white"

\* popup.js getScoreColor.
popup_getScoreColor(score) ==
    IF score >= 80 THEN "#f44336"
    ELSE IF score >= 60 THEN "#ff9800"
    ELSE IF score >= 40 THEN "#ffc107"
    ELSE "#4caf50"

\* getScoreText with the second threshold of getScoreColor left out of step
\* (70 for 60).
popup_getScoreText_threshold70(score) ==
    IF score >= 80 THEN "High Risk"
    ELSE IF score >= 70 THEN "Medium Risk"
    ELSE IF score >= 40 THEN "Low Risk"
    ELSE "Safe Purchase"

\* popup.js getScoreText.
popup_getScoreText(score) ==
    IF score >= 80 THEN "High Risk"
    ELSE IF score >= 60 THEN "Medium Risk"
    ELSE IF score >= 40 THEN "Low Risk"
    ELSE "Safe Purchase"

\* content.js showResults, scoreColor (lines 125-127).
content_scoreColor(score) ==
    IF score >= 80 THEN "#f44336"
    ELSE IF score >= 60 THEN "#ff9800"
    ELSE IF score >= 40 THEN "#ffc107"
    ELSE "#4caf50"

\* App.js getScoreColor.
app_getScoreColor(score) ==
    IF score >= 80 THEN "text-red-600 bg-red-100"
    ELSE IF score >= 60 THEN "text-orange-600 bg-orange-100"
    ELSE IF score >= 40 THEN "text-yellow-600 bg-yellow-100"
    ELSE "text-green-600 bg-green-100"

\* App.js lines 552-554, the text under the score bar.
app_scoreText(score) ==
    IF score >= 80 THEN "High manipulation risk!"
    ELSE IF score >= 60 THEN "Moderate manipulation"
    ELSE IF score >= 40 THEN "Some manipulation"
    ELSE "Low manipulation risk"

\* App.js lines 162-165, the text of ImpulseFactors.
app_factorsText(score) ==
    IF score >= 80 THEN "High manipulation risk - be very careful!"
    ELSE IF score >= 60 THEN "Moderate manipulation detected"
    ELSE IF score >= 40 THEN "Some impulse triggers present"
    ELSE "Low manipulation risk"

\* The used width, in percent of the track, of a block whose style is
\* "width: p%": a negative percentage is not a valid width, the declaration
\* is dropped and the block fills its track.
cssWidth(p) == IF p < 0 THEN 100 ELSE p

\* overflow: hidden on the track (.score-bar of popup.html,
\* .whyimpulse-score-bar of content.css): what shows of a fill of width w.
overflowHidden(w) == IF w > 100 THEN 100 ELSE w

\* The score bar: the fill's style is `width: ${impulse_score}%` on every
\* surface; the track of the web app ("w-full bg-gray-200 rounded-full h-4")
\* does not clip.
popup_scoreBar(score)   == overflowHidden(cssWidth(score))
content_scoreBar(score) == overflowHidden(cssWidth(score))
app_scoreBar(score)     == cssWidth(score)

\* Math.max(5, q).
max5(q) == IF isNaN(q) THEN q ELSE IF q.num > 5 * q.den THEN q ELSE Num(5, 1)

\* ImpulseFactors without Math.max(5, ...): the bar's width is the bare
\* percentage.
app_factorWidth_noMinimum(factor) ==
    LET factorValue == IF factor.present /\ factor.value # 0 THEN factor.value ELSE 0
        maxValue    == 30
    IN Num(factorValue * 100, maxValue)

\* ImpulseFactors, lines 131-147: the width of one factor's bar, in percent
\* of its track ("w-24 bg-gray-200 rounded-full h-2", which does not clip).
app_factorWidth(factor) ==
    LET factorValue == IF factor.present /\ factor.value # 0 THEN factor.value ELSE 0
        maxValue    == 30
        percentage  == Num(factorValue * 100, maxValue)
    IN max5(percentage)

\* Math.max and Math.min over the prices.
RECURSIVE maxOf(_)
maxOf(prices) ==
    IF Len(prices) = 1 THEN prices[1]
    ELSE LET m == maxOf(Tail(prices)) IN IF prices[1] > m THEN prices[1] ELSE m

RECURSIVE minOf(_)
minOf(prices) ==
    IF Len(prices) = 1 THEN prices[1]
    ELSE LET m == minOf(Tail(prices)) IN IF prices[1] < m THEN prices[1] ELSE m

\* PriceHistoryChart with y measured from the bottom (the "100 -" left out).
PriceHistoryChart_bottomUp(priceHistory) ==
    IF priceHistory = <<>> THEN <<>>
    ELSE LET maxPrice   == maxOf(priceHistory)
             minPrice   == minOf(priceHistory)
             priceRange == maxPrice - minPrice
         IN [i \in 1..Len(priceHistory) |->
                [x |-> Num((i - 1) * 100, Len(priceHistory) - 1),
                 y |-> Num((priceHistory[i] - minPrice) * 100, priceRange)]]

\* PriceHistoryChart, lines 75-98: the points of the polyline, x and y in
\* percent; nothing is rendered for an empty history.  The index of
\* priceHistory.map starts at 0.
PriceHistoryChart(priceHistory) ==
    IF priceHistory = <<>> THEN <<>>
    ELSE LET maxPrice   == maxOf(priceHistory)
             minPrice   == minOf(priceHistory)
             priceRange == maxPrice - minPrice
         IN [i \in 1..Len(priceHistory) |->
                [x |-> Num((i - 1) * 100, Len(priceHistory) - 1),
                 y |-> Num(100 * priceRange - (priceHistory[i] - minPrice) * 100,
                           priceRange)]]

\* AlternativesSection, per alternative: the savings badge (lines 222-227,
\* "Save {formatCurrency(alt.savings)} ({alt.savings_percent}% off)", the
\* amount keeping its sign) and the comparison text (lines 264-269).
AlternativesSection(alternatives) ==
    [i \in 1..Len(alternatives) |->
        LET alt == alternatives[i] IN
        [badge |-> [amount |-> alt.savings, percent |-> alt.savings_percent],
         comparison |-> IF alt.savings > 0
                        THEN [text |-> "% cheaper", percent |-> alt.savings_percent]
                        ELSE [text |-> "Similar price", percent |-> 0]]]

NoView ==
    [surface |-> "none", verdictClass |-> "", scoreColor |-> "", scoreText |-> "",
     factorsText |-> "", width |-> 0,
     factorWidth |-> Num(0, 1), chart |-> <<>>, alternatives |-> <<>>]

\* popup.js showResults presents the payload.
PresentPopup ==
    /\ context = "presentation"
    /\ view' = [surface |-> "popup",
                verdictClass |-> popup_verdictClass(payload.verdict),
                scoreColor |-> popup_getScoreColor(payload.impulse_score),
                scoreText |-> popup_getScoreText(payload.impulse_score),
                factorsText |-> "",
                width |-> popup_scoreBar(payload.impulse_score),
                factorWidth |-> Num(0, 1), chart |-> <<>>, alternatives |-> <<>>]
    /\ UNCHANGED <<context, classifierVars, payload, netVars, popupVars, appVars, contentVars, bgVars>>

\* content.js showResults presents the payload.
PresentOverlay ==
    /\ context = "presentation"
    /\ view' = [surface |-> "overlay",
                verdictClass |-> content_verdictClass(payload.verdict),
                scoreColor |-> content_scoreColor(payload.impulse_score),
                scoreText |-> "",
                factorsText |-> "",
                width |-> content_scoreBar(payload.impulse_score),
                factorWidth |-> Num(0, 1), chart |-> <<>>, alternatives |-> <<>>]
    /\ UNCHANGED <<context, classifierVars, payload, netVars, popupVars, appVars, contentVars, bgVars>>

\* App.js renders the payload.
PresentApp ==
    /\ context = "presentation"
    /\ view' = [surface |-> "app",
                verdictClass |-> getVerdictStyle(payload.verdict),
                scoreColor |-> app_getScoreColor(payload.impulse_score),
                scoreText |-> app_scoreText(payload.impulse_score),
                factorsText |-> app_factorsText(payload.impulse_score),
                width |-> app_scoreBar(payload.impulse_score),
                factorWidth |-> app_factorWidth(payload.impulse_factor),
                chart |-> PriceHistoryChart(payload.price_history),
                alternatives |-> AlternativesSection(payload.alternatives)]
    /\ UNCHANGED <<context, classifierVars, payload, netVars, popupVars, appVars, contentVars, bgVars>>

\* ============================================================ specification

Contexts == {"popup", "app", "content", "background", "presentation", "classifier"}

Init ==
    /\ context \in Contexts
    /\ pending = {}
    /\ nextId = 1
    /\ rendered = NotRendered
    /\ popupDom = PopupHtml
    /\ currentTabUrl = <<>>
    /\ isAmazonPage = FALSE
    /\ listening = FALSE
    /\ url = <<>>
    /\ loading = FALSE
    /\ analysis = NoData
    /\ error = ""
    /\ mounted = TRUE
    \* content.js init: showAnalyzeButton, then lastUrl = location.href.
    /\ location \in IF context = "content" THEN Pages
                    ELSE IF context = "classifier" THEN CandidatePages
                    ELSE {PageSearch}
    /\ document = IF context = "content"
                  THEN showAnalyzeButton(EmptyDocument, location)
                  ELSE EmptyDocument
    /\ lastUrl = location.href
    /\ timers = <<>>
    /\ navs = 0
    /\ channel = <<>>
    /\ tabs = [tabId \in TabIds |-> NewTab]
    /\ welcomeOpened = FALSE
    /\ candidateUrl \in IF context = "classifier" THEN CandidateUrls ELSE {<<>>}
    /\ classified = NotClassified
    /\ payload \in IF context = "presentation" THEN Payloads ELSE {NoPayload}
    /\ view = NoView

Next ==
    \/ CheckCurrentPage
    \/ ClickAnalyzeCurrent
    \/ ClickAnalyzeManual
    \/ PressEnterInUrlInput
    \/ PopupResponse
    \/ SetUrl
    \/ ClickAnalyze
    \/ PressEnter
    \/ AppResponse
    \/ AnalyzeAnother
    \/ ClickAnalyzeButton
    \/ ContentResponse
    \/ ClosePanel
    \/ Navigate
    \/ MutationObserved
    \/ Tick
    \/ TimerFires
    \/ OnMessage
    \/ BackgroundResponse
    \/ TabUpdated
    \/ OnInstalled
    \/ OnClicked
    \/ PresentPopup
    \/ PresentOverlay
    \/ PresentApp
    \/ ClassifyUrlPopup
    \/ ClassifyUrlBackground
    \/ ClassifyPage

Spec == Init /\ [][Next]_vars

\* One context at a time.
NextPopup ==
    \/ CheckCurrentPage
    \/ ClickAnalyzeCurrent
    \/ ClickAnalyzeManual
    \/ PressEnterInUrlInput
    \/ PopupResponse

InitPopup == Init /\ context = "popup"

SpecPopup == InitPopup /\ [][NextPopup]_vars

NextApp ==
    \/ SetUrl
    \/ ClickAnalyze
    \/ PressEnter
    \/ AppResponse
    \/ AnalyzeAnother

InitApp == Init /\ context = "app"

SpecApp == InitApp /\ [][NextApp]_vars

NextContent ==
    \/ ClickAnalyzeButton
    \/ ContentResponse
    \/ ClosePanel
    \/ Navigate
    \/ MutationObserved
    \/ Tick
    \/ TimerFires

InitContent == Init /\ context = "content"

SpecContent == InitContent /\ [][NextContent]_vars

NextBackground ==
    \/ OnMessage
    \/ BackgroundResponse
    \/ TabUpdated

InitBackground == Init /\ context = "background"

SpecBackground == InitBackground /\ [][NextBackground]_vars

NextPresentation ==
    \/ PresentPopup
    \/ PresentOverlay
    \/ PresentApp

InitPresentation == Init /\ context = "presentation"

SpecPresentation == InitPresentation /\ [][NextPresentation]_vars

NextClassifier ==
    \/ ClassifyUrlPopup
    \/ ClassifyUrlBackground
    \/ ClassifyPage

InitClassifier == Init /\ context = "classifier"

SpecClassifier == InitClassifier /\ [][NextClassifier]_vars

\* The URL watcher of init alone: the page navigates, the observer callback
\* runs, time passes and due timers run; the analyze button is never clicked.
NextWatcher ==
    \/ Navigate
    \/ MutationObserved
    \/ Tick
    \/ TimerFires

SpecWatcher == InitContent /\ [][NextWatcher]_vars

\* Time passes and the event loop runs a timer that is due.
SpecWatcherFair == SpecWatcher /\ WF_vars(Tick) /\ WF_vars(TimerFires)

\* The service worker with every fetch settling: the browser's network
\* stack resolves or rejects each fetch promise.
SpecBackgroundFair == SpecBackground /\ WF_vars(BackgroundResponse)

\* Every listener background.js registers: the relay and the badge sync, and
\* the install and icon-click listeners.
NextWorker ==
    \/ OnMessage
    \/ BackgroundResponse
    \/ TabUpdated
    \/ OnInstalled
    \/ OnClicked

SpecWorker == InitBackground /\ [][NextWorker]_vars

\* ================================================================== claims

\* The invocations awaiting their response.
PendingIds == {r.id : r \in pending}

\* The attached nodes of the overlay with the given id.
Attached(id) == {i \in 1..Len(document.body) : document.nodes[document.body[i]].id = id}

\* The failure a surface shows ("": it shows none).
FailedMessage ==
    CASE context = "popup" ->
            IF popupDom.errorSection.display = "block"
            THEN popupDom.errorSection.textContent ELSE ""
      [] context = "app" -> error
      [] context = "content" ->
            LET panel == getElementById(document, PanelId) IN
            IF panel # 0 /\ document.nodes[panel].innerHTML = "error"
            THEN document.nodes[panel].text ELSE ""
      [] OTHER -> ""

\* The fixed message each surface shows for a failure without detail.
GenericMessage ==
    CASE context = "popup" -> "Analysis failed: Analysis failed"
      [] context = "app" -> AppGenericError
      [] OTHER -> ContentGenericError

\* A displayed message carries `text`: it is the text, or the text after the
\* popup's fixed prefix.
Carries(message, text) ==
    message = text \/ message = "Analysis failed: " \o text

\* C1: on every surface the response of a superseded invocation never
\* overwrites the outcome displayed for a later invocation: while a surface
\* shows the outcome of an invocation, every invocation started after it is
\* still awaiting its response.
C1_NoStaleOverwrite ==
    rendered.id # 0 =>
        \A i \in (rendered.id + 1)..(nextId - 1) : i \in PendingIds

\* C2: in the popup, while a request is Loading both triggering controls are
\* disabled, and at most one popup request is in flight.
C2_PopupControlsDisabledWhileLoading ==
    (context = "popup" /\ pending # {}) =>
        /\ popupDom.analyzeCurrentBtn.disabled
        /\ popupDom.analyzeManualBtn.disabled
        /\ Cardinality(pending) <= 1

\* C3: in the web app, while loading is true no user action starts a second
\* request.
C3_AppNoRequestWhileLoading ==
    [][(context = "app" /\ loading) => nextId' = nextId]_vars

\* C4: in the overlay, whenever a request is in flight the analyze button
\* present in the document takes no clicks, and at most one overlay request
\* is in flight.
C4_OverlayButtonDisabledWhileInFlight ==
    (context = "content" /\ pending # {}) =>
        /\ \A i \in Attached(ButtonId) :
               document.nodes[document.body[i]].pointerEvents = "none"
        /\ Cardinality(pending) <= 1

\* C5: on every surface, once the network calls of its invocations have
\* returned or faulted the surface has left Loading on whatever exit path:
\* the loading indicator is cleared and the triggering control is there and
\* enabled.
C5_LeavesLoading ==
    pending = {} =>
        CASE context = "popup" ->
                /\ popupDom.loadingSection.display = "none"
                /\ ~popupDom.analyzeManualBtn.disabled
          [] context = "app" -> mounted /\ ~loading
          [] context = "content" ->
                \A i \in Attached(ButtonId) :
                    /\ document.nodes[document.body[i]].pointerEvents # "none"
                    /\ document.nodes[document.body[i]].innerHTML = "analyze"
          [] OTHER -> TRUE

\* C6: a URL that is empty after trimming or contains no allow-listed domain
\* causes no network call, on any entry point: every request issued carries
\* a non-empty URL with an allow-listed domain.
C6_InvalidUrlNoNetworkCall ==
    \A r \in pending : trim(r.url) # <<>> /\ popup_isAmazonURL(r.url)

\* C7: on the popup, the web app and the overlay, after a non-success HTTP
\* response the surface shows a failure, whose message is the server's
\* detail when there is one and the surface's fixed generic message
\* otherwise.
C7_HttpErrorMessage ==
    (rendered.id # 0 /\ rendered.outcome.kind \in {"http", "httpBadJson"}) =>
        IF rendered.outcome.text # ""
        THEN Carries(FailedMessage, rendered.outcome.text)
        ELSE FailedMessage = GenericMessage

\* C8: after a network-level fault (the fetch rejects, or the body of a
\* success response is not JSON) the surface shows a failure whose message
\* carries the message of the underlying fault.
C8_FaultMessage ==
    (rendered.id # 0 /\ rendered.outcome.kind \in {"fault", "okBadJson"}) =>
        Carries(FailedMessage,
                IF rendered.outcome.kind = "fault" THEN rendered.outcome.text
                ELSE MsgSyntax)

\* C9: the Navigation Watcher has at most one re-evaluation pending at any
\* time.
C9_SinglePendingReevaluation ==
    context = "content" => Len(timers) <= 1

\* C10: the document holds at most one analyze-button node and at most one
\* results-panel node.
C10_NoDuplicateNodes ==
    /\ Cardinality(Attached(ButtonId)) <= 1
    /\ Cardinality(Attached(PanelId)) <= 1

\* C10 witness: showAnalyzeButton has replaced a button twice (the initial
\* one and its first replacement are detached) while an analysis is in flight.
C10_Witness ==
    /\ context = "content"
    /\ Cardinality({n \in 1..Len(document.nodes) : document.nodes[n].id = ButtonId}) >= 3
    /\ Cardinality(Attached(ButtonId)) = 1
    /\ Cardinality(Attached(PanelId)) = 1
    /\ pending # {}

\* C11: a tab whose last completed navigation carried a URL shows the
\* indicator of that URL: badge "!" in the attention colour with the
\* analyze title when the URL holds an allow-listed domain, an empty badge
\* with the default title when it does not, whatever the tab showed before.
C11_BadgeReflectsLastCompletedUrl ==
    \A tabId \in TabIds :
        tabs[tabId].completed # <<>> =>
            IF background_isAmazonURL(tabs[tabId].completed)
            THEN /\ tabs[tabId].text # ""
                 /\ tabs[tabId].color = BadgeColor
                 /\ tabs[tabId].title = TitleAnalyze
            ELSE /\ tabs[tabId].text = ""
                 /\ tabs[tabId].title = TitleDefault

\* C11 witness: a tab that was on an eligible page (it keeps the badge
\* colour) has completed a navigation to a page that is not, while the other
\* tab is on an eligible page.
C11_Witness ==
    /\ context = "background"
    /\ tabs[1].completed = UrlEbay
    /\ tabs[1].color = BadgeColor
    /\ tabs[1].text = ""
    /\ tabs[2].completed = UrlAmazonCom
    /\ tabs[2].text = "!"

\* A response passed to sendResponse is {success: true, data} or
\* {success: false, error}.
WellFormedResponse(resp) ==
    IF resp.success THEN resp.data # NoData /\ resp.error = ""
    ELSE resp.data = NoData /\ resp.error # ""

\* The i-th message asks for an analysis; it has been answered once.
Asked(i) == IF i <= Len(channel) THEN channel[i].action = "analyzeProduct" ELSE FALSE
Answered(i) == IF i <= Len(channel) THEN Len(channel[i].responses) = 1 ELSE FALSE

\* C12: for a message with action analyzeProduct the listener keeps the
\* channel open and sendResponse is called at most once, with a well-formed
\* response, and eventually is called; for any other action the channel is
\* not kept open and nothing is ever sent.
C12_RelayAnswersExactlyOnce ==
    /\ [](\A i \in 1..Len(channel) :
            IF channel[i].action = "analyzeProduct"
            THEN /\ channel[i].keptOpen
                 /\ Len(channel[i].responses) <= 1
                 /\ \A k \in 1..Len(channel[i].responses) :
                        WellFormedResponse(channel[i].responses[k])
            ELSE /\ ~channel[i].keptOpen
                 /\ channel[i].responses = <<>>)
    /\ \A i \in 1..MaxRequests :
          [](Asked(i) => <>Answered(i))

\* C12 witness: a message with another action was left unanswered and its
\* channel closed; an analyzeProduct message whose fetch failed was
\* answered once with the failure.
C12_Witness ==
    /\ context = "background"
    /\ Len(channel) = 2
    /\ channel[1].action # "analyzeProduct"
    /\ ~channel[1].keptOpen /\ channel[1].responses = <<>>
    /\ channel[2].action = "analyzeProduct" /\ channel[2].keptOpen
    /\ Len(channel[2].responses) = 1
    /\ ~channel[2].responses[1].success
    /\ pending = {}

\* The endpoint behaviours C13 speaks of: a 2xx response with an
\* AnalysisResult, a non-2xx response with or without detail, a network fault.
RelayCases ==
    {o \in Outcomes : \/ o.kind = "ok" /\ o.shape \in {"full", "noOptional"}
                      \/ o.kind \in {"http", "fault"}}

\* C13: the relay and the popup's direct pipeline are outcome-equivalent.
\* Where the popup shows the outcome of a request, the relay's answer to the
\* same endpoint behaviour is success exactly when the popup shows results,
\* and otherwise its error is the message the popup shows after its fixed
\* prefix; and the relay issues a network call only for a URL for which the
\* popup issues one.
C13_RelayEquivalentToDirect ==
    /\ (context = "popup" /\ rendered.id # 0 /\ rendered.outcome \in RelayCases) =>
          LET resp == background_response(Request(rendered.id, <<>>, 0), rendered.outcome)
              succeeded == /\ popupDom.resultsSection.display = "block"
                           /\ popupDom.errorSection.display = "none"
          IN /\ resp.success <=> succeeded
             /\ ~resp.success => FailedMessage = "Analysis failed: " \o resp.error
    /\ context = "background" => \A r \in pending : popup_isAmazonURL(r.url)

\* C14: the content script issues no network request of its own (its
\* analyses go through the background relay): in the page's context no fetch
\* has been issued.
C14_OverlayUsesRelay ==
    context = "content" => (pending = {} /\ nextId = 1)

\* A step in which the user triggers an analysis on a surface.
UserTrigger ==
    \/ ClickAnalyzeCurrent
    \/ ClickAnalyzeManual
    \/ PressEnterInUrlInput
    \/ ClickAnalyze
    \/ PressEnter
    \/ ClickAnalyzeButton

\* C15: no surface retries automatically: a surface issues a request only
\* in a step in which the user triggers an analysis, and one request per
\* such step, so the requests issued never outnumber the triggers and none
\* follows a failure by itself.
C15_NoAutomaticRetry ==
    [][(context \in {"popup", "app", "content"} /\ nextId' # nextId) =>
          /\ UserTrigger
          /\ nextId' = nextId + 1
          /\ Cardinality(pending') = Cardinality(pending) + 1]_vars

\* C15 witness: the only request a surface issued has failed, the failure
\* is shown, and no request is in flight.
C15_Witness ==
    /\ context \in {"popup", "app", "content"}
    /\ rendered.id = 1
    /\ rendered.outcome.kind \in {"fault", "http"}
    /\ FailedMessage # ""
    /\ pending = {}
    /\ nextId = 2

\* C16: presenting a result that conforms to the data model, with or
\* without its optional fields, completes without a fault on every surface:
\* where a surface shows the outcome of a 2xx response with a conforming
\* body, the result is displayed, no failure is shown, and the web app's
\* component tree is still mounted.
C16_ConformingPayloadRenders ==
    (rendered.id # 0 /\ rendered.outcome.kind = "ok"
        /\ rendered.outcome.shape \in {"full", "noOptional"}) =>
        CASE context = "popup" ->
                /\ popupDom.resultsSection.display = "block"
                /\ popupDom.resultsSection.innerHTML.for = rendered.id
                /\ FailedMessage = ""
          [] context = "app" ->
                /\ mounted
                /\ analysis.for = rendered.id
                /\ FailedMessage = ""
          [] context = "content" ->
                LET panel == getElementById(document, PanelId) IN
                /\ panel # 0
                /\ document.nodes[panel].innerHTML = "results"
                /\ document.nodes[panel].data.for = rendered.id
          [] OTHER -> TRUE

\* The verdict texts by the keywords they hold, whatever the case of their
\* letters.
WithBuy        == {VerdictBUY, VerdictBuyNow, VerdictSkipBuy, VerdictWaitBuy}
WithWaitNoBuy  == {VerdictWait, VerdictSkipWait}
WithSkipOnly   == {VerdictSkip}
WithoutKeyword == {VerdictHold, VerdictNone}

\* The bucket a surface shows: the class of the verdict element in the popup
\* and the overlay, its style in the web app.
Bucket ==
    CASE view.verdictClass \in {"buy", "bg-green-500 text-white"}   -> "Buy"
      [] view.verdictClass \in {"wait", "bg-yellow-500 text-white"} -> "Wait"
      [] view.verdictClass \in {"skip", "bg-red-500 text-white"}    -> "Skip"
      [] view.verdictClass = "bg-gray-500 text-white"               -> "Unknown"
      [] OTHER -> "none"

\* C17: on every surface the bucket is Buy for a verdict that holds "buy",
\* also when it holds "wait" or "skip"; otherwise Wait for one that holds
\* "wait", also when it holds "skip"; otherwise Skip for one that holds
\* "skip".
C17_VerdictFirstMatchWins ==
    view.surface # "none" =>
        /\ payload.verdict \in WithBuy => Bucket = "Buy"
        /\ payload.verdict \in WithWaitNoBuy => Bucket = "Wait"
        /\ payload.verdict \in WithSkipOnly => Bucket = "Skip"

\* C17 witness: the popup has presented a verdict that holds "wait" before
\* "buy", as Buy.
C17_Witness ==
    /\ view.surface = "popup"
    /\ payload.verdict = VerdictWaitBuy
    /\ view.verdictClass = "buy"

\* C18: on every surface a verdict that holds none of "buy", "wait", "skip"
\* falls in the bucket Unknown.
C18_VerdictFallbackUnknown ==
    (view.surface # "none" /\ payload.verdict \in WithoutKeyword) => Bucket = "Unknown"

\* The four risk bands of an impulse_score.
Band(score) ==
    IF score >= 80 THEN "severe"
    ELSE IF 60 <= score /\ score < 80 THEN "high"
    ELSE IF 40 <= score /\ score < 60 THEN "moderate"
    ELSE "low"

\* The band a colour, a class list or a label of a surface stands for ("":
\* the surface shows no such element; "none": no band).
TierOf(shown) ==
    CASE shown \in {"#f44336", "text-red-600 bg-red-100", "High Risk",
                    "High manipulation risk!",
                    "High manipulation risk - be very careful!"} -> "severe"
      [] shown \in {"#ff9800", "text-orange-600 bg-orange-100", "Medium Risk",
                    "Moderate manipulation", "Moderate manipulation detected"} -> "high"
      [] shown \in {"#ffc107", "text-yellow-600 bg-yellow-100", "Low Risk",
                    "Some manipulation", "Some impulse triggers present"} -> "moderate"
      [] shown \in {"#4caf50", "text-green-600 bg-green-100", "Safe Purchase",
                    "Low manipulation risk"} -> "low"
      [] OTHER -> "none"

\* C19: on every surface the colour and each label derived from
\* impulse_score stand for the band of the score: severe from 80, high from
\* 60 to 79, moderate from 40 to 59, low below 40; so all surfaces agree.
C19_ScoreBands ==
    view.surface # "none" =>
        /\ TierOf(view.scoreColor) = Band(payload.impulse_score)
        /\ view.surface \in {"popup", "app"} =>
               TierOf(view.scoreText) = Band(payload.impulse_score)
        /\ view.surface = "app" =>
               TierOf(view.factorsText) = Band(payload.impulse_score)

\* C19 witness: the web app has presented the score 60, the lower edge of
\* the band high, in the colour and the labels of that band.
C19_Witness ==
    /\ view.surface = "app"
    /\ payload.impulse_score = 60
    /\ view.scoreColor = "text-orange-600 bg-orange-100"
    /\ view.scoreText = "Moderate manipulation"
    /\ view.factorsText = "Moderate manipulation detected"

\* C20: for every impulse_score, also outside 0..100, the score bar a
\* surface shows is between 0% and 100% of its track and the colour is that
\* of one of the four bands.
C20_ScoreClamped ==
    view.surface # "none" =>
        /\ view.width \in 0..100
        /\ TierOf(view.scoreColor) \in {"severe", "high", "moderate", "low"}

\* A number is defined and lies in [lo, hi].
Within(q, lo, hi) == ~isNaN(q) /\ lo * q.den <= q.num /\ q.num <= hi * q.den

\* A number is defined and equal to the integer k.
Equals(q, k) == ~isNaN(q) /\ q.num = k * q.den

\* C21: for every impulse_factors value, also below 0 and above 30, the
\* factor bar the web app renders is at most 100% of its track.
C21_FactorBarAtMostTrack ==
    view.surface = "app" => Within(view.factorWidth, 0, 100)

\* C22: for every impulse_factors value, also 0, a negative value and a
\* missing key, the factor bar the web app renders is at least 5% wide.
C22_FactorBarMinimumWidth ==
    view.surface = "app" => (~isNaN(view.factorWidth)
                             /\ view.factorWidth.num >= 5 * view.factorWidth.den)

\* C22 witness: the web app has rendered the bar of a negative factor 5%
\* wide.
C22_Witness ==
    /\ view.surface = "app"
    /\ payload.impulse_factor = Factor(-3)
    /\ Equals(view.factorWidth, 5)

\* The prices of a history, its lowest and its highest.
PricesOf(h) == {h[i] : i \in 1..Len(h)}
Lowest(h)   == CHOOSE p \in PricesOf(h) : \A q \in PricesOf(h) : p <= q
Highest(h)  == CHOOSE p \in PricesOf(h) : \A q \in PricesOf(h) : p >= q

\* C23: for a history of at least two points whose prices are not all
\* equal, the vertical position of every point is
\* 100 - ((price - min) / (max - min)) * 100, within [0,100]; a point at the
\* lowest price is at 100 and a point at the highest price at 0.
C23_VerticalScaling ==
    LET h == payload.price_history IN
    (view.surface = "app" /\ Len(h) >= 2 /\ Lowest(h) < Highest(h)) =>
        /\ Len(view.chart) = Len(h)
        /\ \A i \in 1..Len(h) :
            LET y == view.chart[i].y IN
            /\ Within(y, 0, 100)
            /\ y.num * (Highest(h) - Lowest(h)) =
                   (100 * (Highest(h) - Lowest(h)) - (h[i] - Lowest(h)) * 100) * y.den
            /\ h[i] = Lowest(h) => Equals(y, 100)
            /\ h[i] = Highest(h) => Equals(y, 0)

\* C23 witness: the web app has charted the prices 100, 150, 100 at the
\* vertical positions 100, 0, 100.
C23_Witness ==
    /\ view.surface = "app"
    /\ payload.price_history = <<100, 150, 100>>
    /\ Len(view.chart) = 3
    /\ Equals(view.chart[1].y, 100)
    /\ Equals(view.chart[2].y, 0)
    /\ Equals(view.chart[3].y, 100)

\* C24: for a non-empty history whose prices are all equal, every point has
\* the same, defined vertical position.
C24_FlatHistoryMidline ==
    LET h == payload.price_history IN
    (view.surface = "app" /\ h # <<>> /\ Lowest(h) = Highest(h)) =>
        /\ Len(view.chart) = Len(h)
        /\ \A i \in 1..Len(h) :
            /\ ~isNaN(view.chart[i].y)
            /\ view.chart[i].y = view.chart[1].y

\* C25: for a history of n >= 1 points every horizontal position is a
\* defined value within [0,100] that does not decrease with the index; the
\* first is 0 and, for n >= 2, the last is 100.
C25_HorizontalScaling ==
    LET h == payload.price_history IN
    (view.surface = "app" /\ h # <<>>) =>
        /\ Len(view.chart) = Len(h)
        /\ \A i \in 1..Len(h) : Within(view.chart[i].x, 0, 100)
        /\ \A i \in 1..(Len(h) - 1) :
               view.chart[i].x.num * view.chart[i + 1].x.den
                   <= view.chart[i + 1].x.num * view.chart[i].x.den
        /\ Equals(view.chart[1].x, 0)
        /\ Len(h) >= 2 => Equals(view.chart[Len(h)].x, 100)

\* C26: for an alternative with savings > 0 the comparison text is
\* "<savings_percent>% cheaper"; for one with savings <= 0 it is "similar
\* price", and neither a negative amount nor a negative percentage is
\* rendered for it.
C26_SavingsFraming ==
    view.surface = "app" =>
        /\ Len(view.alternatives) = Len(payload.alternatives)
        /\ \A i \in 1..Len(payload.alternatives) :
            LET alt   == payload.alternatives[i]
                shown == view.alternatives[i]
            IN IF alt.savings > 0
               THEN shown.comparison = [text |-> "% cheaper", percent |-> alt.savings_percent]
               ELSE /\ shown.comparison.text = "Similar price"
                    /\ shown.comparison.percent >= 0
                    /\ shown.badge.amount >= 0
                    /\ shown.badge.percent >= 0

\* The candidate URLs that hold an allow-listed domain as a substring.
EligibleUrls == {UrlAmazonCom, UrlPaddedDe, UrlShortACo, UrlCoUk, UrlAmznTo, UrlInQuery}

\* C27: isAmazonURL, in the popup and in the background script, returns
\* true for a URL that holds an allow-listed domain as a substring and false
\* for a URL that holds none; so the two copies agree.
C27_EligibleDomain ==
    classified.by \in {"popup", "background"} =>
        (classified.result <=> candidateUrl \in EligibleUrls)

\* C27 witness: the background copy has accepted a URL that holds an
\* allow-listed domain only in its query.
C27_Witness ==
    /\ classified = [by |-> "background", result |-> TRUE]
    /\ candidateUrl = UrlInQuery

\* The candidate pages with a product-path marker or the product title.
ProductPages == {PageDp, PageGp, PageDeal}

\* C28: isProductPage returns true iff the path holds '/dp/' or
\* '/gp/product/' or the product title element is present, and calling it
\* changes neither the document nor the watcher's state.
C28_ProductPage ==
    [][classified'.by = "content" =>
          /\ classified'.result <=> location \in ProductPages
          /\ UNCHANGED <<document, location, lastUrl, timers>>]_vars

\* C28 witness: a page with the product title and no path marker has been
\* classified as a product page.
C28_Witness ==
    /\ classified = [by |-> "content", result |-> TRUE]
    /\ location = PageDeal

\* C29: when no re-evaluation is pending and the watcher has seen the
\* current URL (every re-evaluation scheduled for a URL change has run), the
\* analyze button is in the document iff the page shown is a product page.
C29_ButtonMatchesEligibility ==
    (context = "content" /\ timers = <<>> /\ lastUrl = location.href) =>
        (Attached(ButtonId) # {} <=> location \in ProductPages)

\* C30: the watcher schedules a re-evaluation exactly in a step in which a
\* mutation is observed while the URL differs from the last observed one,
\* and records the URL in that step; a mutation observed with the URL
\* unchanged schedules nothing; a re-evaluation runs only once its settle
\* delay has passed, and every scheduled one eventually runs.
C30_WatcherSchedules ==
    /\ [][/\ context = "content"
             => /\ (MutationObserved /\ location.href # lastUrl)
                       => /\ timers' = Append(timers, SettleTicks)
                          /\ lastUrl' = location.href
                /\ (MutationObserved /\ location.href = lastUrl)
                       => UNCHANGED <<timers, lastUrl>>
                /\ (Len(timers') > Len(timers) \/ lastUrl' # lastUrl)
                       => (MutationObserved /\ location.href # lastUrl)
                /\ Len(timers') < Len(timers)
                       => /\ Head(timers) = 0
                          /\ timers' = Tail(timers)
                          /\ document' = showAnalyzeButton(document, location)]_vars
    /\ [](timers # <<>> => <>(timers = <<>>))

\* C30 witness: after a navigation the watcher has recorded the new URL and
\* its re-evaluation has run on a product page (a second button node was
\* created); nothing is pending.
C30_Witness ==
    /\ context = "content"
    /\ navs >= 1
    /\ lastUrl = location.href
    /\ timers = <<>>
    /\ Cardinality({n \in 1..Len(document.nodes) : document.nodes[n].id = ButtonId}) >= 2

\* The surface shows the result of invocation `id`.
ShowsResultOf(id) ==
    CASE context = "popup" ->
            /\ popupDom.resultsSection.display = "block"
            /\ popupDom.resultsSection.innerHTML.for = id
      [] context = "app" -> mounted /\ analysis # NoData /\ analysis.for = id
      [] context = "content" ->
            LET panel == getElementById(document, PanelId) IN
            /\ panel # 0
            /\ document.nodes[panel].display = "block"
            /\ document.nodes[panel].innerHTML = "results"
            /\ document.nodes[panel].data.for = id
      [] OTHER -> FALSE

\* The surface shows an error message.
ShowsError ==
    CASE context = "popup" -> popupDom.errorSection.display = "block"
      [] context = "app" -> mounted /\ error # ""
      [] context = "content" ->
            LET panel == getElementById(document, PanelId) IN
            /\ panel # 0
            /\ document.nodes[panel].display = "block"
            /\ document.nodes[panel].innerHTML = "error"
      [] OTHER -> FALSE

\* The surface shows that invocation `r` is Loading.
ShowsLoading(r) ==
    CASE context = "popup" -> popupDom.loadingSection.display = "block"
      [] context = "app" -> mounted /\ loading
      [] context = "content" -> document.nodes[r.ref].innerHTML = "analyzing"
      [] OTHER -> FALSE

\* The analyze surfaces.
Surfaces == {"popup", "app", "content"}

\* C31: each analyze invocation goes Idle -> Loading -> Succeeded | Failed:
\* the step that starts an invocation shows it Loading, and the step in which
\* its network call returns or faults leaves the surface showing exactly one
\* terminal outcome of it, its result or an error, never both and never
\* neither.
C31_Lifecycle ==
    [][(context \in Surfaces) =>
          /\ \A r \in pending' \ pending : ShowsLoading(r)'
          /\ \A r \in pending \ pending' :
                 (ShowsResultOf(r.id)' # ShowsError')]_vars

\* C32: the web app's validation accepts exactly the allow-listed set: an
\* analyze attempt of the web app (click or Enter) proceeds to the network
\* call iff the URL entered contains one of the nine allow-listed domains,
\* the decision of the extension's isAmazonURL.
C32_AppAcceptsAllowList ==
    [][(ClickAnalyze \/ PressEnter) =>
          ((pending' # pending) <=> popup_isAmazonURL(url))]_vars

\* The indicator of a tab: badge text, badge colour and tooltip.
Indicator(t) == [text |-> t.text, color |-> t.color, title |-> t.title]

\* C33: a tab's indicator changes only on a navigation-complete event of
\* that tab: message handling (a step that writes the channel or starts or
\* ends a fetch), install events (the welcome page opens) and icon clicks
\* (nothing is written) leave every indicator as it was; one event changes the indicator of at most one tab,
\* and a change is the listener's answer to a 'complete' event with a URL;
\* an event whose status is not 'complete', or that carries no URL, leaves
\* the indicator of its tab unchanged.
C33_IndicatorFrame ==
    [][(context = "background") =>
          /\ (channel' # channel \/ pending' # pending \/ welcomeOpened' # welcomeOpened)
                 => tabs' = tabs
          /\ \A a, b \in TabIds :
                 a # b => (tabs'[a] = tabs[a] \/ tabs'[b] = tabs[b])
          /\ \A a \in TabIds :
                 Indicator(tabs'[a]) # Indicator(tabs[a]) =>
                     /\ tabs'[a].completed \notin {<<>>, Undefined}
                     /\ tabs'[a] = onUpdated(tabs[a], "complete", tabs'[a].completed)
          /\ \A a \in TabIds, status \in TabStatuses, u \in TabUrls :
                 (status # "complete" \/ u \in {Undefined, <<>>}) =>
                     onUpdated(tabs[a], status, u) = tabs[a]]_vars

\* C33 witness: a message was answered, the welcome page was opened and tab
\* 1 completed a navigation to a product page; tab 2 is as it was created.
C33_Witness ==
    /\ context = "background"
    /\ welcomeOpened
    /\ Len(channel) >= 1
    /\ channel[1].responses # <<>>
    /\ tabs[1].text = "!"
    /\ tabs[2] = NewTab

\* A visible results panel that shows an analysis shows one requested for
\* the page's current URL.
PanelShowsCurrentPage ==
    LET panel == getElementById(document, PanelId) IN
    (/\ panel # 0
     /\ document.nodes[panel].display = "block"
     /\ document.nodes[panel].innerHTML = "results")
        => document.nodes[panel].data.url = getCurrentProductURL(location)

\* C34: in the overlay, once the re-evaluation of the current page has run
\* (the last pending timer fires, the watcher having recorded the page's
\* URL), a visible results panel that shows an analysis shows one requested
\* for the page's current URL.
C34_PanelShowsCurrentPage ==
    [][(/\ context = "content"
        /\ lastUrl = location.href
        /\ Len(timers) = 1 /\ timers' = <<>>) => PanelShowsCurrentPage']_vars

\* C35: in the web app a displayed analysis result and a non-empty error
\* message are never shown together: after any sequence of analyze attempts
\* and resets, analysis is non-null only if error is empty.
C35_AppResultXorError ==
    (context = "app" /\ mounted /\ analysis # NoData) => error = ""

\* The sections of the popup that are visible.
VisibleSections ==
    {name \in {"loadingSection", "resultsSection", "errorSection"} :
        popupDom[name].display = "block"}

\* C36: in the popup, under every interleaving of clicks and responses, at
\* most one of the three sections (loading, results, error) is visible.
C36_PopupOneSectionVisible ==
    context = "popup" => Cardinality(VisibleSections) <= 1

\* C36 witness: with two requests started, the first response was shown and
\* replaced the loading section while the second request is in flight.
C36_Witness ==
    /\ context = "popup"
    /\ pending # {}
    /\ rendered.id # 0
    /\ VisibleSections = {"resultsSection"}

\* C37: in the popup and in the web app the loading indicator is accurate:
\* it is visible (the popup's loading section shown, the web app's loading
\* flag true) iff at least one analysis request of the surface is in flight.
C37_LoadingIndicatorAccurate ==
    /\ context = "popup" => (popupDom.loadingSection.display = "block" <=> pending # {})
    /\ context = "app" => (loading <=> pending # {})

\* The active tab gave checkCurrentPage no URL to classify.
NoTabUrl == currentTabUrl = <<>> \/ currentTabUrl = Undefined

\* C38: in the popup the 'analyze current' control starts a request only for
\* an eligible active-tab URL: isAmazonPage is true only if currentTabUrl is
\* non-empty and contains an allow-listed domain; the button is enabled iff
\* isAmazonPage is true; when the active-tab query fails or yields no URL
\* the button stays disabled; and a click of the button that issues a
\* request issues it for currentTabUrl with isAmazonPage true.
C38_AnalyzeCurrentOnlyEligible ==
    /\ [](context = "popup" =>
            /\ isAmazonPage => (~NoTabUrl /\ popup_isAmazonURL(currentTabUrl))
            /\ ~popupDom.analyzeCurrentBtn.disabled <=> isAmazonPage
            /\ NoTabUrl => popupDom.analyzeCurrentBtn.disabled)
    /\ [][ClickAnalyzeCurrent =>
            /\ isAmazonPage /\ ~NoTabUrl
            /\ \A r \in pending' \ pending : r.url = currentTabUrl]_vars

\* C38 witness: the active tab is eligible, the button is enabled and its
\* click has started a request for the tab's URL.
C38_Witness ==
    /\ context = "popup" /\ listening
    /\ isAmazonPage
    /\ ~popupDom.analyzeCurrentBtn.disabled
    /\ currentTabUrl = UrlShortACo
    /\ \E r \in pending : r.url = currentTabUrl

====
